---- MODULE Spec2Model ----
(***************************************************************************)
(* Engagement ledger of the Brain Scroll API (likePaper, unlikePaper,      *)
(* viewPaper of api/src/controllers/papersController.js) over the papers   *)
(* and engagements collections of the record store.  Every await of a      *)
(* handler is a yield point: one action is the store operation that the    *)
(* await waits for together with the synchronous continuation that runs    *)
(* up to the next store call.  The feed (getFeed of                        *)
(* api/src/controllers/feedController.js) reads the documents of the       *)
(* papers collection, by page or by cursor.                                *)
(***************************************************************************)
EXTENDS Integers, FiniteSets, Sequences, Bags, TLC

\* ---------------------------------------------------------------- bounds
MaxCalls == 2
MaxTicks == 2

\* the clock advances in steps of 40 minutes
TickMs == 40 * 60 * 1000

Papers == {"p1", "p2"}
Sessions == {"s1", "s2"}
Calls == 1..MaxCalls

\* 60 * 60 * 1000 of viewPaper
HourMs == 60 * 60 * 1000

VARIABLES
    likes_count,    \* papers collection: likes_count of every paper
    views_count,    \* papers collection: views_count of every paper
    engagements,    \* engagements collection: a bag of ledger documents
    validated,      \* whether the papers collection carries the validator
    prior,          \* the (paper, session) likes completed before the requests
    now,            \* Date.now()
    calls,          \* the requests: position, locals and response of each
    papersCollection,   \* papers collection: the documents getFeed reads
    feed,           \* the getFeed request: its locals and its response
    chain,          \* the pages a client has collected by following nextCursor
    trending        \* the getTrending request: its locals and its response

feedVars == <<papersCollection, feed, chain, trending>>

vars == <<likes_count, views_count, engagements, validated, prior, now, calls,
          feedVars>>

\* ------------------------------------------------------------ the store
\* created_at is kept on view documents only: no query reads it on a like
LikeDoc(p, s) == [paper_id |-> p, session_id |-> s, type |-> "like"]

ViewDoc(p, s, t) == [paper_id |-> p, session_id |-> s, type |-> "view", created_at |-> t]

Matching(p, s, ty) ==
    {e \in BagToSet(engagements) :
        e.paper_id = p /\ e.session_id = s /\ e.type = ty}

RECURSIVE SumCopies(_)
SumCopies(S) ==
    IF S = {} THEN 0
    ELSE LET e == CHOOSE x \in S : TRUE
         IN  CopiesIn(e, engagements) + SumCopies(S \ {e})

\* number of ledger documents of one (paper, session, type)
Entries(p, s, ty) == SumCopies(Matching(p, s, ty))

\* number of ledger documents of one paper and type
EntriesOfPaper(p, ty) ==
    SumCopies({e \in BagToSet(engagements) : e.paper_id = p /\ e.type = ty})

insertOne(e) == engagements (+) SetToBag({e})

removeOne(e) == engagements (-) SetToBag({e})

\* likes_count: { bsonType: 'int', minimum: 0 } of the papers validator
PassesValidation(n) == (~validated) \/ n >= 0

Max(a, b) == IF a >= b THEN a ELSE b

\* ------------------------------------------------------------- requests
NoResp == [status |-> 0, message |-> "none", liked |-> FALSE, likesCount |-> 0]

Resp(st, m, l, n) == [status |-> st, message |-> m, liked |-> l, likesCount |-> n]

\* incAt records when the request incremented views_count
Idle == [op |-> "none", id |-> "none", sessionId |-> "none", pc |-> "idle",
         paper |-> 0, oneHourAgo |-> 0, created_at |-> 0, resp |-> NoResp,
         incAt |-> -1]

InFlight(c) == calls[c].pc \notin {"idle", "done"}

Quiescent == \A c \in Calls : ~InFlight(c)

Done(c) == calls[c].pc = "done"

\* c is the request that arrived last
Last(c) == Done(c) /\ (IF c = MaxCalls THEN TRUE ELSE calls[c + 1].pc = "idle")

Target(c, o, p, s) ==
    calls[c].op = o /\ calls[c].id = p /\ calls[c].sessionId = s

\* the like and unlike requests of (p, s) that arrived before c
EarlierOn(c, p, s) ==
    {d \in Calls : d < c /\ calls[d].op \in {"like", "unlike"}
                         /\ calls[d].id = p /\ calls[d].sessionId = s}

Latest(E) == CHOOSE d \in E : \A e \in E : e <= d

\* with one request at a time: s likes p when c arrives
LikedBefore(c) ==
    LET E == EarlierOn(c, calls[c].id, calls[c].sessionId)
    IN  IF E = {} THEN <<calls[c].id, calls[c].sessionId>> \in prior
        ELSE calls[Latest(E)].op = "like" /\ calls[Latest(E)].resp.status = 200

\* likes_count of p when the first request arrives
Initial(p) == Cardinality({x \in prior : x[1] = p})

\* requests are numbered in the order of their arrival
CanStart(c) ==
    /\ calls[c].pc = "idle"
    /\ IF c = 1 THEN TRUE ELSE calls[c - 1].pc # "idle"

\* the request's locals after the findOne of the paper has resolved
Started(c, o, p, s, next) ==
    [Idle EXCEPT !.op = o, !.id = p, !.sessionId = s, !.pc = next,
                 !.paper = likes_count[p]]

Finish(c, r) == [calls EXCEPT ![c].pc = "done", ![c].resp = r]

\* -------------------------------------------------------------- likePaper
LikeFindPaper(c, p, s) ==
    /\ CanStart(c)
    /\ calls' = [calls EXCEPT ![c] = Started(c, "like", p, s, "check")]
    /\ UNCHANGED <<likes_count, views_count, engagements, validated, prior,
                 now, feedVars>>

\* LikeCheck without the existence check
LikeCheckBlind(c) ==
    /\ calls[c].op = "like" /\ calls[c].pc = "check"
    /\ calls' = [calls EXCEPT ![c].pc = "insert"]
    /\ UNCHANGED <<likes_count, views_count, engagements, validated, prior,
                 now, feedVars>>

LikeCheck(c) ==
    /\ calls[c].op = "like" /\ calls[c].pc = "check"
    /\ LET r == calls[c]
           existingLike == Matching(r.id, r.sessionId, "like") # {}
       IN  IF existingLike
           THEN calls' = Finish(c, Resp(200, "Paper already liked", TRUE, r.paper))
           ELSE calls' = [calls EXCEPT ![c].pc = "insert"]
    /\ UNCHANGED <<likes_count, views_count, engagements, validated, prior,
                 now, feedVars>>

LikeInsert(c) ==
    /\ calls[c].op = "like" /\ calls[c].pc = "insert"
    /\ LET r == calls[c]
       IN  engagements' = insertOne(LikeDoc(r.id, r.sessionId))
    /\ calls' = [calls EXCEPT ![c].pc = "inc"]
    /\ UNCHANGED <<likes_count, views_count, validated, prior, now, feedVars>>

\* LikeInc as a read-modify-write: it stores the likes_count read by findOne
\* plus one instead of using $inc
LikeIncReadModifyWrite(c) ==
    /\ calls[c].op = "like" /\ calls[c].pc = "inc"
    /\ LET r == calls[c]
           result == r.paper + 1
       IN  /\ likes_count' = [likes_count EXCEPT ![r.id] = result]
           /\ calls' = Finish(c, Resp(200, "Paper liked successfully", TRUE, result))
    /\ UNCHANGED <<views_count, engagements, validated, prior, now, feedVars>>

LikeInc(c) ==
    /\ calls[c].op = "like" /\ calls[c].pc = "inc"
    /\ LET r == calls[c]
           result == likes_count[r.id] + 1
       IN  /\ likes_count' = [likes_count EXCEPT ![r.id] = result]
           /\ calls' = Finish(c, Resp(200, "Paper liked successfully", TRUE, result))
    /\ UNCHANGED <<views_count, engagements, validated, prior, now, feedVars>>

\* ------------------------------------------------------------ unlikePaper
UnlikeFindPaper(c, p, s) ==
    /\ CanStart(c)
    /\ calls' = [calls EXCEPT ![c] = Started(c, "unlike", p, s, "delete")]
    /\ UNCHANGED <<likes_count, views_count, engagements, validated, prior,
                 now, feedVars>>

\* UnlikeDelete that goes on to the decrement whatever deleteOne removed
UnlikeDeleteAlways(c) ==
    /\ calls[c].op = "unlike" /\ calls[c].pc = "delete"
    /\ LET r == calls[c]
           found == Matching(r.id, r.sessionId, "like")
       IN  IF found = {}
           THEN UNCHANGED engagements
           ELSE \E e \in found : engagements' = removeOne(e)
    /\ calls' = [calls EXCEPT ![c].pc = "dec"]
    /\ UNCHANGED <<likes_count, views_count, validated, prior, now, feedVars>>

UnlikeDelete(c) ==
    /\ calls[c].op = "unlike" /\ calls[c].pc = "delete"
    /\ LET r == calls[c]
           found == Matching(r.id, r.sessionId, "like")
       IN  IF found = {}
           THEN /\ calls' = Finish(c, Resp(200, "Paper was not liked", FALSE, r.paper))
                /\ UNCHANGED engagements
           ELSE /\ \E e \in found : engagements' = removeOne(e)
                /\ calls' = [calls EXCEPT ![c].pc = "dec"]
    /\ UNCHANGED <<likes_count, views_count, validated, prior, now, feedVars>>

\* UnlikeDec that answers without decrementing the stored counter
UnlikeDecUnstored(c) ==
    /\ calls[c].op = "unlike" /\ calls[c].pc = "dec"
    /\ LET r == calls[c]
           result == likes_count[r.id] - 1
       IN  calls' = Finish(c, Resp(200, "Paper unliked successfully", FALSE,
                                   Max(0, result)))
    /\ UNCHANGED <<likes_count, views_count, engagements, validated, prior,
                 now, feedVars>>

UnlikeDec(c) ==
    /\ calls[c].op = "unlike" /\ calls[c].pc = "dec"
    /\ LET r == calls[c]
           result == likes_count[r.id] - 1
       IN  IF PassesValidation(result)
           THEN /\ likes_count' = [likes_count EXCEPT ![r.id] = result]
                /\ calls' = Finish(c, Resp(200, "Paper unliked successfully", FALSE,
                                           Max(0, result)))
           ELSE /\ UNCHANGED likes_count
                /\ calls' = Finish(c, Resp(500, "Failed to unlike paper", FALSE, 0))
    /\ UNCHANGED <<views_count, engagements, validated, prior, now, feedVars>>

\* -------------------------------------------------------------- viewPaper
ViewFindPaper(c, p, s) ==
    /\ CanStart(c)
    /\ calls' = [calls EXCEPT ![c] =
                    [Started(c, "view", p, s, "vcheck") EXCEPT
                        !.oneHourAgo = now - HourMs]]
    /\ UNCHANGED <<likes_count, views_count, engagements, validated, prior,
                 now, feedVars>>

\* ViewCheck whose query leaves out created_at: { $gte: oneHourAgo }
ViewCheckForever(c) ==
    /\ calls[c].op = "view" /\ calls[c].pc = "vcheck"
    /\ LET r == calls[c]
           existingView == Matching(r.id, r.sessionId, "view") # {}
       IN  IF ~existingView
           THEN calls' = [calls EXCEPT ![c].pc = "vinsert", ![c].created_at = now]
           ELSE calls' = Finish(c, Resp(200, "View tracked successfully", FALSE, 0))
    /\ UNCHANGED <<likes_count, views_count, engagements, validated, prior,
                 now, feedVars>>

ViewCheck(c) ==
    /\ calls[c].op = "view" /\ calls[c].pc = "vcheck"
    /\ LET r == calls[c]
           existingView == \E e \in Matching(r.id, r.sessionId, "view") :
                               e.created_at >= r.oneHourAgo
       IN  IF ~existingView
           THEN calls' = [calls EXCEPT ![c].pc = "vinsert", ![c].created_at = now]
           ELSE calls' = Finish(c, Resp(200, "View tracked successfully", FALSE, 0))
    /\ UNCHANGED <<likes_count, views_count, engagements, validated, prior,
                 now, feedVars>>

ViewInsert(c) ==
    /\ calls[c].op = "view" /\ calls[c].pc = "vinsert"
    /\ LET r == calls[c]
       IN  engagements' = insertOne(ViewDoc(r.id, r.sessionId, r.created_at))
    /\ calls' = [calls EXCEPT ![c].pc = "vinc"]
    /\ UNCHANGED <<likes_count, views_count, validated, prior, now, feedVars>>

\* ViewInc with an update that raises likes_count as well
ViewIncBothCounters(c) ==
    /\ calls[c].op = "view" /\ calls[c].pc = "vinc"
    /\ LET r == calls[c]
       IN  /\ views_count' = [views_count EXCEPT ![r.id] = @ + 1]
           /\ likes_count' = [likes_count EXCEPT ![r.id] = @ + 1]
           /\ calls' = [Finish(c, Resp(200, "View tracked successfully", FALSE, 0))
                          EXCEPT ![c].incAt = now]
    /\ UNCHANGED <<engagements, validated, prior, now, feedVars>>

ViewInc(c) ==
    /\ calls[c].op = "view" /\ calls[c].pc = "vinc"
    /\ LET r == calls[c]
       IN  /\ views_count' = [views_count EXCEPT ![r.id] = @ + 1]
           /\ calls' = [Finish(c, Resp(200, "View tracked successfully", FALSE, 0))
                          EXCEPT ![c].incAt = now]
    /\ UNCHANGED <<likes_count, engagements, validated, prior, now, feedVars>>

\* ------------------------------------------------------ rejected requests
\* what a client may send as :id besides the id of a paper: the ObjectId of no
\* paper, and a string that is not an ObjectId
UnknownId == "p0"

MalformedId == "not-an-object-id"

Ids == Papers \cup {UnknownId, MalformedId}

\* a request body without sessionId
Missing == "missing"

isValid(id) == id # MalformedId

\* a generator that repeats itself
uuidv4Repeating(c) == "uuid-" \o ToString(1)

uuidv4(c) == "uuid-" \o ToString(c)

\* the validation of :id and the findOne of a paper that does not exist
RejectId(id) ==
    IF ~isValid(id) THEN Resp(400, "Invalid paper ID", FALSE, 0)
    ELSE Resp(404, "Paper not found", FALSE, 0)

Rejected(c, o, id, s, r) ==
    [calls EXCEPT ![c] = [Idle EXCEPT !.op = o, !.id = id, !.sessionId = s,
                                      !.pc = "done", !.resp = r]]

\* LikeReject that writes the ledger document before it looks the paper up
LikeRejectAfterInsert(c, id, s) ==
    /\ CanStart(c)
    /\ id \notin Papers
    /\ LET sessionId == IF s = Missing THEN uuidv4(c) ELSE s
       IN  /\ engagements' = insertOne(LikeDoc(id, sessionId))
           /\ calls' = Rejected(c, "like", id, sessionId, RejectId(id))
    /\ UNCHANGED <<likes_count, views_count, validated, prior, now, feedVars>>

LikeReject(c, id, s) ==
    /\ CanStart(c)
    /\ id \notin Papers
    /\ LET sessionId == IF s = Missing THEN uuidv4(c) ELSE s
       IN  calls' = Rejected(c, "like", id, sessionId, RejectId(id))
    /\ UNCHANGED <<likes_count, views_count, engagements, validated, prior,
                 now, feedVars>>

UnlikeReject(c, id, s) ==
    /\ CanStart(c)
    /\ s = Missing \/ id \notin Papers
    /\ calls' = Rejected(c, "unlike", id, s,
                         IF s = Missing
                         THEN Resp(400, "Session ID is required", FALSE, 0)
                         ELSE RejectId(id))
    /\ UNCHANGED <<likes_count, views_count, engagements, validated, prior,
                 now, feedVars>>

ViewReject(c, id, s) ==
    /\ CanStart(c)
    /\ id \notin Papers
    /\ LET sessionId == IF s = Missing THEN uuidv4(c) ELSE s
       IN  calls' = Rejected(c, "view", id, sessionId, RejectId(id))
    /\ UNCHANGED <<likes_count, views_count, engagements, validated, prior,
                 now, feedVars>>

\* a like request of an existing paper whose body has no sessionId: the
\* handler generates one
LikeFindPaperNoSession(c, p) == LikeFindPaper(c, p, uuidv4(c))

\* data.sessionId of the responses of likePaper and viewPaper: the handler's
\* local sessionId
ResponseSessionId(c) ==
    IF calls[c].op \in {"like", "view"} /\ calls[c].resp.status = 200
    THEN calls[c].sessionId ELSE "none"


\* ------------------------------------------------------------------ time
Tick ==
    /\ now < MaxTicks * TickMs
    /\ now' = now + TickMs
    /\ UNCHANGED <<likes_count, views_count, engagements, validated, prior,
                 calls, feedVars>>

\* ------------------------------------------------------ store failures
\* The store operation a request is waiting for throws: the handler's catch
\* block answers 500 and nothing is undone.
StoreFail(c) ==
    /\ InFlight(c)
    /\ calls' = Finish(c, Resp(500, "Failed", FALSE, 0))
    /\ UNCHANGED <<likes_count, views_count, engagements, validated, prior,
                 now, feedVars>>

\* ------------------------------------------------------------------ feed
\* getFeed of api/src/controllers/feedController.js over the documents of the
\* papers collection.
MaxPapers == 3
MaxPages == 3
MaxInserts == 1

\* Math.min(100, ...) of limitNum
MaxLimit == 100

\* limit = 20 of the destructuring of req.query
DefaultLimit == 20

\* page = 1 of the destructuring of req.query
DefaultPage == 1

Categories == {"cs.AI", "cs.LG"}
Sorts == {"newest", "popular", "trending"}
Stamps == {1, 2}
Likes == {0, 1}

\* no category in the route or the query
NoCategory == "none"

\* ---- query parameters as they are sent, and the numbers of JavaScript
Absent == [kind |-> "absent", v |-> 0]

\* the decimal numeral of n, as in limit=500
Numeral(n) == [kind |-> "numeral", v |-> n]

\* a parameter that is no numeral, as in page=abc
Text == [kind |-> "text", v |-> 0]

NaN == [nan |-> TRUE, v |-> 0]

Num(n) == [nan |-> FALSE, v |-> n]

parseInt(raw) == IF raw.kind = "numeral" THEN Num(raw.v) ELSE NaN

Min(a, b) == IF a <= b THEN a ELSE b

MathMax(a, b) == IF a.nan \/ b.nan THEN NaN ELSE Num(Max(a.v, b.v))

MathMin(a, b) == IF a.nan \/ b.nan THEN NaN ELSE Num(Min(a.v, b.v))

Minus(a, b) == IF a.nan \/ b.nan THEN NaN ELSE Num(a.v - b.v)

Times(a, b) == IF a.nan \/ b.nan THEN NaN ELSE Num(a.v * b.v)

\* a < n and a === n for a JavaScript number a and an integer n
LessThan(a, n) == (~a.nan) /\ a.v < n

StrictEq(a, n) == (~a.nan) /\ a.v = n

\* Math.ceil(n / a)
\* the quotient rounded down instead of up
MathFloorDiv(n, a) ==
    IF a.nan \/ a.v = 0 THEN NaN ELSE Num(n \div a.v)

MathCeilDiv(n, a) ==
    IF a.nan \/ a.v = 0 THEN NaN ELSE Num((n + a.v - 1) \div a.v)

pageNum(page) ==
    MathMax(Num(1), parseInt(IF page = Absent THEN Numeral(DefaultPage) ELSE page))

\* limitNum without Math.min(100, ...)
limitNumUncapped(limit) ==
    MathMax(Num(1), parseInt(IF limit = Absent THEN Numeral(DefaultLimit) ELSE limit))

limitNum(limit) ==
    MathMin(Num(MaxLimit),
            MathMax(Num(1), parseInt(IF limit = Absent THEN Numeral(DefaultLimit)
                                     ELSE limit)))

skip(page, limit) == Times(Minus(pageNum(page), Num(1)), limitNum(limit))

\* ---- cursor tokens
\* no cursor in the query; also nextCursor: null
NoCursor ==
    [kind |-> "none", has |-> {}, created_at |-> 0, likes_count |-> 0, id |-> 0]

\* Buffer.from(JSON.stringify(cursorData)).toString('base64') of a document
Encode(d) ==
    [kind |-> "json", has |-> {"created_at", "likes_count"},
     created_at |-> d.created_at, likes_count |-> d.likes_count, id |-> d.id]

\* 'invalid-cursor': its base64 decoding is not JSON
Garbage == [NoCursor EXCEPT !.kind = "garbage"]

\* the base64 of '{}': JSON that carries no sort key
EmptyObject == [NoCursor EXCEPT !.kind = "json"]

\* the base64 of '{"likes_count":1}': JSON cut off before created_at
OnlyLikes == [NoCursor EXCEPT !.kind = "json", !.has = {"likes_count"},
                              !.likes_count = 1]

\* the base64 of 'null'
NullJson == [NoCursor EXCEPT !.kind = "null"]

\* a well-formed token whose keys lie above those of every document
FarFuture == Cardinality(Stamps) + MaxInserts + 1

TopCursor ==
    [kind |-> "json", has |-> {"created_at", "likes_count"},
     created_at |-> FarFuture, likes_count |-> Cardinality(Likes), id |-> 0]

\* JSON.parse throws, or cursorData.created_at is read from null
CursorThrows(token, sort) ==
    \/ token.kind = "garbage"
    \/ token.kind = "null" /\ sort \in {"newest", "popular"}

\* new Date(cursorData.created_at) is an Invalid Date in the filter
InvalidDate(token, sort) ==
    /\ token.kind = "json" /\ "created_at" \notin token.has
    /\ sort \in {"newest", "popular"}

\* the cursor condition with $lte in place of $lt
CursorConditionInclusive(d, token, sort) ==
    IF sort = "newest"
    THEN "created_at" \in token.has /\ d.created_at <= token.created_at
    ELSE IF sort = "popular"
    THEN /\ "likes_count" \in token.has
         /\ \/ d.likes_count < token.likes_count
            \/ /\ d.likes_count = token.likes_count
               /\ "created_at" \in token.has
               /\ d.created_at <= token.created_at
    ELSE TRUE

\* the condition the cursor adds to the filter; a comparison with a missing
\* key or with an Invalid Date matches no document
CursorCondition(d, token, sort) ==
    IF sort = "newest"
    THEN "created_at" \in token.has /\ d.created_at < token.created_at
    ELSE IF sort = "popular"
    THEN /\ "likes_count" \in token.has
         /\ \/ d.likes_count < token.likes_count
            \/ /\ d.likes_count = token.likes_count
               /\ "created_at" \in token.has
               /\ d.created_at < token.created_at
    ELSE TRUE

\* find(filter): the documents that match
Filter(category, token, sort) ==
    {d \in papersCollection :
        /\ category = NoCategory \/ d.category = category
        /\ token.kind = "none" \/ CursorCondition(d, token, sort)}

\* sortOrder: a comes before b
Before(a, b, sort) ==
    IF sort = "popular"
    THEN \/ a.likes_count > b.likes_count
         \/ a.likes_count = b.likes_count /\ a.created_at > b.created_at
    ELSE IF sort = "trending"
    THEN \/ a.likes_count > b.likes_count
         \/ a.likes_count = b.likes_count /\ a.views_count > b.views_count
         \/ /\ a.likes_count = b.likes_count /\ a.views_count = b.views_count
            /\ a.created_at > b.created_at
    ELSE a.created_at > b.created_at

\* sort(sortOrder).limit(k): the first k documents of S, where documents with
\* equal sort keys come in any order
RECURSIVE Take(_, _, _)
Take(S, k, sort) ==
    IF k = 0 \/ S = {} THEN {<<>>}
    ELSE UNION {{<<d>> \o q : q \in Take(S \ {d}, k - 1, sort)} :
                d \in {x \in S : \A y \in S : ~Before(y, x, sort)}}

\* skip(n) of a result
Drop(q, n) == IF n >= Len(q) THEN <<>> ELSE SubSeq(q, n + 1, Len(q))

IdsOf(q) == [i \in 1..Len(q) |-> q[i].id]

\* skip(cursor ? 0 : skip) that ignores the cursor
skipArgOfPage(r) == r.skip

\* the argument of skip(cursor ? 0 : skip)
skipArg(r) == IF r.cursor # NoCursor THEN Num(0) ELSE r.skip

\* ---- the request
NoPagination ==
    [mode |-> "none", page |-> Num(0), limit |-> Num(0), total |-> 0,
     totalPages |-> Num(0), hasMore |-> FALSE, nextCursor |-> NoCursor]

\* cursorFrom is the sort mode of the request whose response carried the
\* cursor
FeedIdle ==
    [pc |-> "idle", sort |-> "none", category |-> NoCategory,
     page |-> Absent, limit |-> Absent, cursor |-> NoCursor,
     cursorFrom |-> "none", pageNum |-> Num(0), limitNum |-> Num(0),
     skip |-> Num(0), queried |-> FALSE, skipped |-> Num(0), papers |-> <<>>,
     status |-> 0, pagination |-> NoPagination]

NoChain ==
    [state |-> "none", sort |-> "none", category |-> NoCategory,
     start |-> {}, got |-> <<>>, pages |-> 0, inserted |-> 0]

\* the locals of getFeed before the cursor is parsed
Request(sort, category, page, limit, token, from) ==
    [FeedIdle EXCEPT !.sort = sort,
                     !.category = category, !.page = page, !.limit = limit,
                     !.cursor = token, !.cursorFrom = from,
                     !.pageNum = pageNum(page), !.limitNum = limitNum(limit),
                     !.skip = skip(page, limit)]

\* the client of the feed has sent no request yet
CanRequest == feed.pc = "idle"

\* the query must carry NaN or an Invalid Date to the store
Unserializable(r) ==
    skipArg(r).nan \/ r.limitNum.nan \/ InvalidDate(r.cursor, r.sort)

\* the results the store may give for find(filter).sort().skip().limit();
\* a NaN it accepts is read as 0, and limit(0) is no limit
Results(r) ==
    LET S == Filter(r.category, r.cursor, r.sort)
        sk == IF skipArg(r).nan THEN 0 ELSE skipArg(r).v
        lim == IF r.limitNum.nan THEN 0 ELSE r.limitNum.v
        k == IF lim = 0 THEN Cardinality(S) ELSE sk + lim
    IN  {Drop(q, sk) : q \in Take(S, k, r.sort)}

\* next(error): the error middleware answers 500
Failed(r) ==
    [r EXCEPT !.pc = "done", !.queried = TRUE, !.skipped = skipArg(r),
              !.status = 500]

\* lines 115-135: the response of a request with a cursor
CursorResponse(r, papers) ==
    LET full == StrictEq(r.limitNum, Len(papers))
    IN  [r EXCEPT !.pc = "done", !.queried = TRUE, !.skipped = skipArg(r),
                  !.papers = IdsOf(papers), !.status = 200,
                  !.pagination =
                      [NoPagination EXCEPT
                          !.mode = "cursor", !.limit = r.limitNum,
                          !.hasMore = full,
                          !.nextCursor = IF full THEN Encode(papers[Len(papers)])
                                         ELSE NoCursor]]

\* lines 136-142: the response of a request without cursor, which has no
\* nextCursor
PageResponse(r, total) ==
    [r EXCEPT !.pc = "done", !.status = 200,
              !.pagination =
                  [NoPagination EXCEPT
                      !.mode = "page", !.page = r.pageNum, !.limit = r.limitNum,
                      !.total = total,
                      !.totalPages = MathCeilDiv(total, r.limitNum),
                      !.hasMore = LessThan(Times(r.pageNum, r.limitNum), total)]]

ledgerVars == <<likes_count, views_count, engagements, validated, prior, now, calls>>

\* ---- the client's iteration
FirstPage(r, papers) ==
    [state |-> "open", sort |-> r.sort, category |-> r.category,
     start |-> {d.id : d \in Filter(r.category, NoCursor, r.sort)},
     got |-> IdsOf(papers), pages |-> 1, inserted |-> 0]

Ended(c, more) == [c EXCEPT !.state = IF more THEN "open" ELSE "ended"]

\* ---- getFeed
\* a request without cursor, up to the await of toArray
FeedFirst(sort, category, page, limit) ==
    /\ CanRequest
    /\ LET r == Request(sort, category, page, limit, NoCursor, "none")
       IN  \/ /\ Unserializable(r)
              /\ feed' = Failed(r)
              /\ chain' = NoChain
           \/ \E papers \in Results(r) :
                /\ feed' = [r EXCEPT !.pc = "count", !.queried = TRUE,
                                     !.skipped = skipArg(r),
                                     !.papers = IdsOf(papers)]
                /\ chain' = IF StrictEq(r.skip, 0) THEN FirstPage(r, papers)
                            ELSE NoChain
    /\ UNCHANGED <<papersCollection, trending, ledgerVars>>

\* the await of countDocuments(filter) and the response
FeedCount ==
    /\ feed.pc = "count"
    /\ LET total == Cardinality(Filter(feed.category, NoCursor, feed.sort))
       IN  /\ feed' = PageResponse(feed, total)
           /\ chain' = IF chain.state = "open"
                       THEN Ended(chain, feed'.pagination.hasMore)
                       ELSE chain
    /\ UNCHANGED <<papersCollection, trending, ledgerVars>>

\* a request with a cursor: one await, toArray, and the response
GetFeedCursor(sort, category, page, limit, token, from, c) ==
    LET r == Request(sort, category, page, limit, token, from)
    IN  IF CursorThrows(token, sort)
        THEN /\ feed' = [r EXCEPT !.pc = "done", !.status = 400]
             /\ chain' = NoChain
        ELSE \/ /\ Unserializable(r)
                /\ feed' = Failed(r)
                /\ chain' = NoChain
             \/ \E papers \in Results(r) :
                  /\ feed' = CursorResponse(r, papers)
                  /\ chain' =
                       IF c.state = "first"
                       THEN Ended(FirstPage(r, papers), feed'.pagination.hasMore)
                       ELSE IF c.state = "open"
                       THEN Ended([c EXCEPT !.got = @ \o IdsOf(papers),
                                            !.pages = @ + 1],
                                  feed'.pagination.hasMore)
                       ELSE NoChain

\* the client sends a token of its own
FeedCursor(sort, category, page, limit, token) ==
    /\ CanRequest
    /\ GetFeedCursor(sort, category, page, limit, token, "none",
                     IF token = TopCursor THEN [NoChain EXCEPT !.state = "first"]
                     ELSE NoChain)
    /\ UNCHANGED <<papersCollection, trending, ledgerVars>>

\* the client sends the nextCursor of the last response, with the same
\* category and limit
FeedNext(sort, page) ==
    /\ feed.pc = "done" /\ feed.status = 200
    /\ feed.pagination.nextCursor # NoCursor
    /\ chain.pages < MaxPages
    /\ GetFeedCursor(sort, feed.category, page, feed.limit,
                     feed.pagination.nextCursor, feed.sort,
                     IF sort = chain.sort THEN chain ELSE NoChain)
    /\ UNCHANGED <<papersCollection, trending, ledgerVars>>

\* the ingestion inserts a paper: Paper.sanitize gives it no likes and no
\* views, marks it as not processed yet, and gives it a creation time later
\* than that of every paper before it
InsertPaper(category) ==
    /\ Cardinality(papersCollection) < MaxPapers + MaxInserts
    /\ LET newest == CHOOSE d \in papersCollection :
                         \A e \in papersCollection : e.id <= d.id
       IN  papersCollection' = papersCollection \cup
               {[id |-> newest.id + 1, created_at |-> newest.created_at + 1,
                 likes_count |-> 0, views_count |-> 0, category |-> category,
                 processed |-> FALSE]}
    /\ chain' = IF chain.state = "open"
                THEN [chain EXCEPT !.inserted = @ + 1] ELSE chain
    /\ UNCHANGED <<feed, trending, ledgerVars>>

\* ---- likes seen from the feed
\* the findOneAndUpdate of likePaper on the document the feed reads: a like
\* by a session that had not liked the paper raises its likes_count by one
PaperLiked(i) ==
    /\ \E d \in papersCollection :
          /\ d.id = i /\ d.likes_count + 1 \in Likes
          /\ papersCollection' = (papersCollection \ {d}) \cup
                {[d EXCEPT !.likes_count = @ + 1]}
    /\ UNCHANGED <<feed, chain, trending, ledgerVars>>

\* the findOneAndUpdate of unlikePaper on the document the feed reads: the
\* unlike of an existing like lowers its likes_count by one
PaperUnliked(i) ==
    /\ \E d \in papersCollection :
          /\ d.id = i /\ d.likes_count - 1 \in Likes
          /\ papersCollection' = (papersCollection \ {d}) \cup
                {[d EXCEPT !.likes_count = @ - 1]}
    /\ UNCHANGED <<feed, chain, trending, ledgerVars>>

\* ------------------------------------------------------------- getTrending
TrendingMaxLimit == 50
DefaultWindow == 7
Windows == {1, 7, 30}
DayMs == 24 * 60 * 60 * 1000

\* ---- rational numbers, in lowest terms with a positive denominator
RECURSIVE GCD(_, _)
GCD(a, b) == IF b = 0 THEN a ELSE GCD(b, a % b)

Frac(n, d) == LET g == GCD(n, d) IN [num |-> n \div g, den |-> d \div g]

Greater(x, y) == x.num * y.den > y.num * x.den

\* ---- the locals of getTrending
TrendingIdle ==
    [pc |-> "idle", timeWindow |-> Absent, category |-> NoCategory,
     page |-> Absent, limit |-> Absent, timeWindowNum |-> 0,
     pageNum |-> Num(0), limitNum |-> Num(0), skip |-> Num(0),
     papers |-> <<>>, status |-> 0, totalCount |-> 0,
     totalPages |-> Num(0), hasNextPage |-> FALSE, hasPrevPage |-> FALSE]

trendingLimitNum(limit) ==
    MathMin(Num(TrendingMaxLimit),
            MathMax(Num(1), parseInt(IF limit = Absent THEN Numeral(DefaultLimit)
                                     ELSE limit)))

timeWindowNum(timeWindow) ==
    LET n == parseInt(IF timeWindow = Absent THEN Numeral(DefaultWindow)
                      ELSE timeWindow)
    IN  IF ~n.nan /\ n.v \in Windows THEN n.v ELSE DefaultWindow

\* created_at >= dateThreshold, where dateThreshold is new Date() moved back
\* by w days of 24 hours: written on the age of the document, so that no
\* intermediate value leaves the 32-bit integers
AtOrAfterThreshold(d, w) ==
    LET age == now - d.created_at
    IN  \/ age \div DayMs < w
        \/ age \div DayMs = w /\ age % DayMs = 0

TrendingRequest(timeWindow, category, page, limit) ==
    [TrendingIdle EXCEPT
        !.timeWindow = timeWindow, !.category = category,
        !.page = page, !.limit = limit,
        !.timeWindowNum = timeWindowNum(timeWindow),
        !.pageNum = pageNum(page), !.limitNum = trendingLimitNum(limit),
        !.skip = Times(Minus(pageNum(page), Num(1)), trendingLimitNum(limit))]

\* a query that looks at no creation time
queryAnyAge(r) ==
    {d \in papersCollection :
        /\ d.processed
        /\ r.category = NoCategory \/ d.category = r.category}

\* $match: processed papers created at or after the threshold, of the
\* category when one is given
query(r) ==
    {d \in papersCollection :
        /\ d.processed
        /\ AtOrAfterThreshold(d, r.timeWindowNum)
        /\ r.category = NoCategory \/ d.category = r.category}

\* ---- the pipeline
days_old(d) == Frac(now - d.created_at, DayMs)

engagement_score(d) == d.likes_count * 2 + d.views_count

trending_score(d) ==
    LET age == days_old(d)
    IN  IF age.num = 0 THEN Frac(engagement_score(d), 1)
        ELSE Frac(engagement_score(d) * age.den, age.num + age.den)

\* $sort { trending_score: -1, created_at: -1 }: a comes before b
ScoreBefore(a, b) ==
    \/ Greater(trending_score(a), trending_score(b))
    \/ /\ trending_score(a) = trending_score(b)
       /\ a.created_at > b.created_at

\* the first k documents of the sorted candidates, where documents with equal
\* score and creation time come in any order
RECURSIVE Ranked(_, _)
Ranked(S, k) ==
    IF k = 0 \/ S = {} THEN {<<>>}
    ELSE UNION {{<<d>> \o q : q \in Ranked(S \ {d}, k - 1)} :
                d \in {x \in S : \A y \in S : ~ScoreBefore(y, x)}}

\* the results the store may give for the pipeline; a NaN it accepts is read
\* as 0, and without a limit every document is returned
TrendingResults(r) ==
    LET S == query(r)
        sk == IF r.skip.nan THEN 0 ELSE r.skip.v
        lim == IF r.limitNum.nan THEN 0 ELSE r.limitNum.v
        k == IF lim = 0 THEN Cardinality(S) ELSE sk + lim
    IN  {Drop(q, sk) : q \in Ranked(S, k)}

\* the client of the trending endpoint has sent no request yet
CanRequestTrending == trending.pc = "idle"

\* a request up to the await of aggregate(pipeline).toArray(); a pipeline
\* that carries NaN may be refused by the store, which the catch answers
\* with 500
TrendingAggregate(timeWindow, category, page, limit) ==
    /\ CanRequestTrending
    /\ LET r == TrendingRequest(timeWindow, category, page, limit)
       IN  \/ /\ r.skip.nan \/ r.limitNum.nan
              /\ trending' = [r EXCEPT !.pc = "done", !.status = 500]
           \/ \E papers \in TrendingResults(r) :
                trending' = [r EXCEPT !.pc = "count", !.papers = IdsOf(papers)]
    /\ UNCHANGED <<papersCollection, feed, chain, ledgerVars>>

\* the await of countDocuments(query) and the response
TrendingCount ==
    /\ trending.pc = "count"
    /\ LET totalCount == Cardinality(query(trending))
           totalPages == MathCeilDiv(totalCount, trending.limitNum)
       IN  trending' =
              [trending EXCEPT
                  !.pc = "done", !.status = 200,
                  !.totalCount = totalCount, !.totalPages = totalPages,
                  !.hasNextPage = /\ ~trending.pageNum.nan /\ ~totalPages.nan
                                  /\ trending.pageNum.v < totalPages.v,
                  !.hasPrevPage = /\ ~trending.pageNum.nan
                                  /\ trending.pageNum.v > 1]
    /\ UNCHANGED <<papersCollection, feed, chain, ledgerVars>>

\* --------------------------------------------------------- specification
\* The store when the requests under study arrive: the likes of some sessions
\* have completed (one ledger document and one increment each), no view has.
Init ==
    /\ prior \in SUBSET (Papers \X Sessions)
    /\ engagements = SetToBag({LikeDoc(x[1], x[2]) : x \in prior})
    /\ likes_count = [p \in Papers |-> Cardinality({x \in prior : x[1] = p})]
    /\ views_count = [p \in Papers |-> 0]
    /\ validated \in BOOLEAN
    /\ now = 0
    /\ calls = [c \in Calls |-> Idle]
    /\ papersCollection = {} /\ feed = FeedIdle /\ chain = NoChain
    /\ trending = TrendingIdle

Next ==
    \/ \E c \in Calls, p \in Papers, s \in Sessions : LikeFindPaper(c, p, s)
    \/ \E c \in Calls : LikeCheck(c)
    \/ \E c \in Calls : LikeInsert(c)
    \/ \E c \in Calls : LikeInc(c)
    \/ \E c \in Calls, p \in Papers, s \in Sessions : UnlikeFindPaper(c, p, s)
    \/ \E c \in Calls : UnlikeDelete(c)
    \/ \E c \in Calls : UnlikeDec(c)
    \/ \E c \in Calls, p \in Papers, s \in Sessions : ViewFindPaper(c, p, s)
    \/ \E c \in Calls : ViewCheck(c)
    \/ \E c \in Calls : ViewInsert(c)
    \/ \E c \in Calls : ViewInc(c)
    \/ Tick

Spec == Init /\ [][Next]_vars

\* One request at a time: a request arrives only after the previous one has
\* been answered.
SeqLikeFindPaper(c, p, s) == Quiescent /\ LikeFindPaper(c, p, s)

SeqUnlikeFindPaper(c, p, s) == Quiescent /\ UnlikeFindPaper(c, p, s)

SeqViewFindPaper(c, p, s) == Quiescent /\ ViewFindPaper(c, p, s)

\* One like or unlike request at a time.
NextSeqLikes ==
    \/ \E c \in Calls, p \in Papers, s \in Sessions : SeqLikeFindPaper(c, p, s)
    \/ \E c \in Calls : LikeCheck(c)
    \/ \E c \in Calls : LikeInsert(c)
    \/ \E c \in Calls : LikeInc(c)
    \/ \E c \in Calls, p \in Papers, s \in Sessions : SeqUnlikeFindPaper(c, p, s)
    \/ \E c \in Calls : UnlikeDelete(c)
    \/ \E c \in Calls : UnlikeDec(c)

SpecSeqLikes == Init /\ [][NextSeqLikes]_vars

\* One view request at a time, while the clock advances.
NextSeqViews ==
    \/ \E c \in Calls, p \in Papers, s \in Sessions : SeqViewFindPaper(c, p, s)
    \/ \E c \in Calls : ViewCheck(c)
    \/ \E c \in Calls : ViewInsert(c)
    \/ \E c \in Calls : ViewInc(c)
    \/ Tick

SpecSeqViews == Init /\ [][NextSeqViews]_vars

\* One request at a time over a store whose operations may throw.
NextFault ==
    \/ \E c \in Calls, p \in Papers, s \in Sessions : SeqLikeFindPaper(c, p, s)
    \/ \E c \in Calls : LikeCheck(c)
    \/ \E c \in Calls : LikeInsert(c)
    \/ \E c \in Calls : LikeInc(c)
    \/ \E c \in Calls, p \in Papers, s \in Sessions : SeqUnlikeFindPaper(c, p, s)
    \/ \E c \in Calls : UnlikeDelete(c)
    \/ \E c \in Calls : UnlikeDec(c)
    \/ \E c \in Calls, p \in Papers, s \in Sessions : SeqViewFindPaper(c, p, s)
    \/ \E c \in Calls : ViewCheck(c)
    \/ \E c \in Calls : ViewInsert(c)
    \/ \E c \in Calls : ViewInc(c)
    \/ \E c \in Calls : StoreFail(c)

SpecFault == Init /\ [][NextFault]_vars

\* Concurrent like and unlike requests only.
NextLikes ==
    \/ \E c \in Calls, p \in Papers, s \in Sessions : LikeFindPaper(c, p, s)
    \/ \E c \in Calls : LikeCheck(c)
    \/ \E c \in Calls : LikeInsert(c)
    \/ \E c \in Calls : LikeInc(c)
    \/ \E c \in Calls, p \in Papers, s \in Sessions : UnlikeFindPaper(c, p, s)
    \/ \E c \in Calls : UnlikeDelete(c)
    \/ \E c \in Calls : UnlikeDec(c)

SpecLikes == Init /\ [][NextLikes]_vars

\* Concurrent like and view requests only.
NextCount ==
    \/ \E c \in Calls, p \in Papers, s \in Sessions : LikeFindPaper(c, p, s)
    \/ \E c \in Calls : LikeCheck(c)
    \/ \E c \in Calls : LikeInsert(c)
    \/ \E c \in Calls : LikeInc(c)
    \/ \E c \in Calls, p \in Papers, s \in Sessions : ViewFindPaper(c, p, s)
    \/ \E c \in Calls : ViewCheck(c)
    \/ \E c \in Calls : ViewInsert(c)
    \/ \E c \in Calls : ViewInc(c)

SpecCount == Init /\ [][NextCount]_vars

\* One like request at a time, and requests that the handlers reject, which
\* arrive at any time.
NextReject ==
    \/ \E c \in Calls, p \in Papers, s \in Sessions : SeqLikeFindPaper(c, p, s)
    \/ \E c \in Calls : LikeCheck(c)
    \/ \E c \in Calls : LikeInsert(c)
    \/ \E c \in Calls : LikeInc(c)
    \/ \E c \in Calls, id \in Ids, s \in {"s1", Missing} : LikeReject(c, id, s)
    \/ \E c \in Calls, id \in Ids, s \in {"s1", Missing} : UnlikeReject(c, id, s)
    \/ \E c \in Calls, id \in Ids, s \in {"s1", Missing} : ViewReject(c, id, s)

SpecReject == Init /\ [][NextReject]_vars

\* Concurrent like requests with and without a sessionId.
NextAnonymous ==
    \/ \E c \in Calls, p \in Papers, s \in Sessions : LikeFindPaper(c, p, s)
    \/ \E c \in Calls, p \in Papers : LikeFindPaperNoSession(c, p)
    \/ \E c \in Calls : LikeCheck(c)
    \/ \E c \in Calls : LikeInsert(c)
    \/ \E c \in Calls : LikeInc(c)

SpecAnonymous == Init /\ [][NextAnonymous]_vars

\* No like, unlike or view request is under study.
LedgerAtRest ==
    /\ prior = {} /\ engagements = EmptyBag
    /\ likes_count = [p \in Papers |-> 0] /\ views_count = [p \in Papers |-> 0]
    /\ validated = TRUE /\ now = 0
    /\ calls = [c \in Calls |-> Idle]

\* The papers collection when the first getFeed request arrives: MaxPapers
\* documents, created in the order of their ids, some at the same time, all
\* of them processed.
InitFeedOver(likes, categories) ==
    /\ \E t \in [1..MaxPapers -> Stamps], l \in [1..MaxPapers -> likes],
          g \in [1..MaxPapers -> categories] :
          /\ \A i, j \in 1..MaxPapers : i < j => t[i] <= t[j]
          /\ papersCollection =
                {[id |-> i, created_at |-> t[i], likes_count |-> l[i],
                  views_count |-> 0, category |-> g[i],
                  processed |-> TRUE] : i \in 1..MaxPapers}
    /\ feed = FeedIdle /\ chain = NoChain /\ trending = TrendingIdle
    /\ LedgerAtRest

InitFeed == InitFeedOver(Likes, {"cs.AI"})

\* getFeed requests of every sort mode, with and without cursor, while papers
\* are inserted.
NextFeed ==
    \/ \E s \in Sorts, g \in {NoCategory, "cs.AI"},
          l \in {Numeral(1), Numeral(2)} : FeedFirst(s, g, Absent, l)
    \/ FeedCount
    \/ \E s \in Sorts, g \in {NoCategory, "cs.AI"},
          l \in {Numeral(1), Numeral(2)},
          k \in {TopCursor, Garbage, EmptyObject, OnlyLikes, NullJson} :
          FeedCursor(s, g, Absent, l, k)
    \/ \E s \in Sorts : FeedNext(s, Absent)
    \/ \E g \in Categories : InsertPaper(g)

SpecFeed == InitFeed /\ [][NextFeed]_vars

\* A client that iterates by cursor under sort=newest, while papers are
\* inserted.
NextFeedNewest ==
    \/ \E g \in {NoCategory, "cs.AI"}, l \in {Numeral(1), Numeral(2)} :
          FeedCursor("newest", g, Absent, l, TopCursor)
    \/ FeedNext("newest", Absent)
    \/ \E g \in Categories : InsertPaper(g)

SpecFeedNewest == InitFeedOver({0}, Categories) /\ [][NextFeedNewest]_vars

\* The page and limit parameters a client may send.
PageInputs == {Absent, Text, Numeral(-1), Numeral(0), Numeral(1), Numeral(2)}

LimitInputs ==
    {Absent, Text, Numeral(-1), Numeral(0), Numeral(1), Numeral(2),
     Numeral(MaxLimit), Numeral(MaxLimit + 1), Numeral(500)}

\* getFeed requests with every page and limit, with and without cursor.
NextFeedParams ==
    \/ \E s \in {"newest", "popular"}, p \in PageInputs, l \in LimitInputs :
          FeedFirst(s, NoCategory, p, l)
    \/ FeedCount
    \/ \E s \in {"newest", "popular"}, p \in PageInputs, l \in LimitInputs :
          FeedCursor(s, NoCategory, p, l, TopCursor)
    \/ \E s \in {"newest", "popular"}, p \in PageInputs : FeedNext(s, p)

SpecFeedParams == InitFeedOver({0}, {"cs.AI"}) /\ [][NextFeedParams]_vars

\* ---- getTrending and getFeed over papers of several ages
Ages == {0, DayMs, 9 * DayMs}
Profiles == {<<0, 0>>, <<10, 0>>, <<0, 3>>}

\* The papers collection ten days after the first paper can have been
\* created: MaxPapers documents, created in the order of their ids, each
\* with likes and views of one profile, processed or not, the oldest one of
\* another category than the others.
InitTrending ==
    /\ \E a \in [1..MaxPapers -> Ages], e \in [1..MaxPapers -> Profiles],
          pr \in [1..MaxPapers -> BOOLEAN] :
          /\ \A i, j \in 1..MaxPapers : i < j => a[i] >= a[j]
          /\ papersCollection =
                {[id |-> i, created_at |-> 10 * DayMs - a[i],
                  likes_count |-> e[i][1], views_count |-> e[i][2],
                  category |-> IF i = 1 THEN "cs.LG" ELSE "cs.AI",
                  processed |-> pr[i]] :
                 i \in 1..MaxPapers}
    /\ feed = FeedIdle /\ chain = NoChain /\ trending = TrendingIdle
    /\ prior = {} /\ engagements = EmptyBag
    /\ likes_count = [p \in Papers |-> 0] /\ views_count = [p \in Papers |-> 0]
    /\ validated = TRUE /\ now = 10 * DayMs
    /\ calls = [c \in Calls |-> Idle]

WindowInputs == {Text, Numeral(1), Numeral(2), Numeral(7), Numeral(30)}

\* getTrending requests with every window
NextTrending ==
    \/ \E w \in WindowInputs, g \in {NoCategory, "cs.AI"},
          l \in {Absent, Numeral(2)} : TrendingAggregate(w, g, Absent, l)
    \/ TrendingCount

SpecTrending == InitTrending /\ [][NextTrending]_vars

\* getFeed requests sorted by trending
NextFeedTrending ==
    \/ \E l \in {Absent, Numeral(2)} : FeedFirst("trending", NoCategory, Absent, l)
    \/ FeedCount

SpecFeedTrending == InitTrending /\ [][NextFeedTrending]_vars

\* a client follows nextCursor through the popular feed while papers are
\* liked and unliked
NextFeedLikes ==
    \/ \E l \in {Numeral(1), Numeral(2)} :
          FeedCursor("popular", NoCategory, Absent, l, TopCursor)
    \/ FeedNext("popular", Absent)
    \/ \E i \in 1..MaxPapers : PaperLiked(i)
    \/ \E i \in 1..MaxPapers : PaperUnliked(i)

SpecFeedLikes == InitFeed /\ [][NextFeedLikes]_vars

\* The ledger with its prior likes, and papers created before the first
\* request for the feed to read.
InitFrame ==
    /\ prior \in SUBSET (Papers \X Sessions)
    /\ engagements = SetToBag({LikeDoc(x[1], x[2]) : x \in prior})
    /\ likes_count = [p \in Papers |-> Cardinality({x \in prior : x[1] = p})]
    /\ views_count = [p \in Papers |-> 0]
    /\ validated \in BOOLEAN
    /\ now = 0
    /\ calls = [c \in Calls |-> Idle]
    /\ papersCollection =
          {[id |-> i, created_at |-> -i, likes_count |-> 0, views_count |-> 0,
            category |-> "cs.AI", processed |-> TRUE] : i \in 1..MaxPapers}
    /\ feed = FeedIdle /\ chain = NoChain /\ trending = TrendingIdle

\* One like, unlike or view request at a time, and between them a read of
\* the feed followed by a read of the trending list.
NextFrame ==
    \/ \E c \in Calls, p \in Papers, s \in Sessions : SeqLikeFindPaper(c, p, s)
    \/ \E c \in Calls : LikeCheck(c)
    \/ \E c \in Calls : LikeInsert(c)
    \/ \E c \in Calls : LikeInc(c)
    \/ \E c \in Calls, p \in Papers, s \in Sessions : SeqUnlikeFindPaper(c, p, s)
    \/ \E c \in Calls : UnlikeDelete(c)
    \/ \E c \in Calls : UnlikeDec(c)
    \/ \E c \in Calls, p \in Papers : SeqViewFindPaper(c, p, "s1")
    \/ \E c \in Calls : ViewCheck(c)
    \/ \E c \in Calls : ViewInsert(c)
    \/ \E c \in Calls : ViewInc(c)
    \/ Quiescent /\ FeedFirst("popular", NoCategory, Absent, Numeral(2))
    \/ FeedCount
    \/ /\ Quiescent /\ feed.pc = "done"
       /\ TrendingAggregate(Numeral(7), NoCategory, Absent, Numeral(2))
    \/ TrendingCount

SpecFrame == InitFrame /\ [][NextFrame]_vars

\* -------------------------------------------------------------- properties
AllDone == \A c \in Calls : Done(c)

\* C1: when every request is a like of the same paper p by the same session s,
\* which had not liked p before, then once all of them have been answered
\* likes_count(p) is exactly 1 higher than before, however their store steps
\* interleaved.
C1_ConcurrentLikesCountOnce ==
    \A p \in Papers, s \in Sessions :
        (/\ AllDone
         /\ <<p, s>> \notin prior
         /\ \A c \in Calls : Target(c, "like", p, s))
        => likes_count[p] = Initial(p) + 1

\* C2: the ledger never holds more than one like document of the same paper
\* and session.
C2_AtMostOneLikeEntry ==
    \A p \in Papers, s \in Sessions : Entries(p, s, "like") <= 1

\* C3: with one request at a time, a like of (p, s) that arrives when s already
\* likes p (a like of (p, s) completed and no unlike followed it) answers 200
\* with liked = true and the current likes_count, and leaves the counter and the
\* single ledger document as they were; so any number of sequential likes of
\* (p, s), not liked before, raise likes_count(p) by exactly 1.
C3_SequentialLikeNoOp ==
    /\ \A c \in Calls :
         (Last(c) /\ calls[c].op = "like" /\ LikedBefore(c))
         => /\ calls[c].resp =
                 Resp(200, "Paper already liked", TRUE, likes_count[calls[c].id])
            /\ likes_count[calls[c].id] = calls[c].paper
            /\ Entries(calls[c].id, calls[c].sessionId, "like") = 1
    /\ \A p \in Papers, s \in Sessions :
         (/\ Quiescent /\ Done(1)
          /\ <<p, s>> \notin prior
          /\ \A c \in Calls : Done(c) => Target(c, "like", p, s))
         => likes_count[p] = Initial(p) + 1 /\ Entries(p, s, "like") = 1

\* a like answered "already liked" right after a like of the same paper and
\* session that was counted
C3_Witness ==
    \E c \in Calls :
        /\ c > 1 /\ Last(c)
        /\ Target(c, "like", calls[c - 1].id, calls[c - 1].sessionId)
        /\ calls[c - 1].op = "like"
        /\ calls[c - 1].resp.message = "Paper liked successfully"
        /\ calls[c].resp.message = "Paper already liked"

\* C4: whenever no request is in flight, every paper's likes_count equals the
\* number of its like documents in the ledger and its views_count the number
\* of its view documents (the counters stood at those numbers when the first
\* request arrived), whatever interleaving led there.
C4_CountersTrackLedger ==
    Quiescent =>
        \A p \in Papers :
            /\ likes_count[p] = EntriesOfPaper(p, "like")
            /\ views_count[p] = EntriesOfPaper(p, "view")

\* C5: likes_count of every paper is never negative, in intermediate states
\* of interleaved requests too, and no unlike answers a negative likesCount.
C5_LikesCountNonNegative ==
    /\ \A p \in Papers : likes_count[p] >= 0
    /\ \A c \in Calls :
         (Done(c) /\ calls[c].op = "unlike") => calls[c].resp.likesCount >= 0

\* C6: when the store fails in a like or a view (the request is answered 500),
\* the request leaves its ledger document and its counter increment either
\* both in place or both absent: after a failed like or view that follows
\* successful requests only, the paper's counters still equal the numbers of
\* its ledger documents.
C6_FailureLeavesNoPartialEffect ==
    \A c \in Calls :
        (/\ Last(c)
         /\ calls[c].op \in {"like", "view"}
         /\ calls[c].resp.status = 500
         /\ \A d \in Calls : d < c => calls[d].resp.status = 200)
        => /\ likes_count[calls[c].id] = EntriesOfPaper(calls[c].id, "like")
           /\ views_count[calls[c].id] = EntriesOfPaper(calls[c].id, "view")

\* C7: with one request at a time, a like of (p, s) that arrives when s does
\* not like p, followed by an unlike of (p, s), leaves likes_count(p) at the
\* value it had when the like arrived and no like document of (p, s) in the
\* ledger, and the unlike answers 200 with liked = false and that value.
C7_LikeThenUnlikeRestores ==
    \A c \in Calls :
        (/\ c > 1 /\ Last(c)
         /\ calls[c - 1].op = "like" /\ ~LikedBefore(c - 1)
         /\ Target(c, "unlike", calls[c - 1].id, calls[c - 1].sessionId))
        => /\ likes_count[calls[c].id] = calls[c - 1].paper
           /\ Entries(calls[c].id, calls[c].sessionId, "like") = 0
           /\ calls[c].resp =
                Resp(200, "Paper unliked successfully", FALSE, calls[c - 1].paper)

\* a counted like of a paper that already had a like, undone by the unlike
\* that followed it
C7_Witness ==
    \E c \in Calls :
        /\ c > 1 /\ Last(c)
        /\ calls[c - 1].op = "like" /\ ~LikedBefore(c - 1)
        /\ calls[c - 1].resp.likesCount = 2
        /\ Target(c, "unlike", calls[c - 1].id, calls[c - 1].sessionId)
        /\ calls[c].resp.status = 200

\* the ledger when the first request arrives
InitialLedger == SetToBag({LikeDoc(x[1], x[2]) : x \in prior})

\* every request that has arrived is an unlike of (p, s), and all are answered
OnlyUnlikes(p, s) ==
    /\ Quiescent /\ Done(1)
    /\ \A c \in Calls : Done(c) => Target(c, "unlike", p, s)

\* C8: unlikes of (p, s), sequential or concurrent, when s does not like p all
\* answer 200 with liked = false and the unchanged likes_count, and leave the
\* ledger and the counter as they were; following a completed like of (p, s)
\* they all answer 200 with liked = false, exactly one of them deletes the
\* like document and decrements, and likes_count(p) ends exactly 1 lower.
C8_UnlikeDecrementsOncePerDeletion ==
    \A p \in Papers, s \in Sessions :
        /\ (OnlyUnlikes(p, s) /\ <<p, s>> \notin prior)
           => /\ \A c \in Calls :
                    Done(c) => calls[c].resp =
                        Resp(200, "Paper was not liked", FALSE, Initial(p))
              /\ engagements = InitialLedger
              /\ likes_count[p] = Initial(p)
        /\ (OnlyUnlikes(p, s) /\ <<p, s>> \in prior)
           => /\ \A c \in Calls :
                    Done(c) => calls[c].resp.status = 200 /\ ~calls[c].resp.liked
              /\ Cardinality({c \in Calls : Done(c) /\ calls[c].resp.message =
                                  "Paper unliked successfully"}) = 1
              /\ Entries(p, s, "like") = 0
              /\ likes_count[p] = Initial(p) - 1

\* two overlapping unlikes after a like: the one that arrived first found the
\* document already deleted by the other
C8_Witness ==
    /\ Done(1) /\ Done(2)
    /\ calls[1].op = "unlike"
    /\ Target(2, "unlike", calls[1].id, calls[1].sessionId)
    /\ <<calls[1].id, calls[1].sessionId>> \in prior
    /\ calls[1].resp.message = "Paper was not liked"
    /\ calls[2].resp.message = "Paper unliked successfully"

\* Date.now() when view request c computed oneHourAgo
ArrivedAt(c) == calls[c].oneHourAgo + HourMs

\* C9: with one request at a time, let the first two requests be views of the
\* same (p, s); both are answered 200; if the second arrives less than 1 hour
\* after the first view was recorded it adds no ledger document and no
\* increment (views_count(p) is 1 higher in total), and if it arrives more
\* than 1 hour after, it adds a document and increments again (2 higher).
C9_ViewThrottle ==
    (/\ Last(2)
     /\ calls[1].op = "view"
     /\ Target(2, "view", calls[1].id, calls[1].sessionId))
    => LET p == calls[1].id
           s == calls[1].sessionId
           gap == ArrivedAt(2) - calls[1].created_at
       IN  /\ calls[1].resp.status = 200 /\ calls[2].resp.status = 200
           /\ gap < HourMs => views_count[p] = 1 /\ Entries(p, s, "view") = 1
           /\ gap > HourMs => views_count[p] = 2 /\ Entries(p, s, "view") = 2

\* a second view 40 minutes after the first that was not counted
C9_Witness ==
    /\ Last(2)
    /\ calls[1].op = "view"
    /\ Target(2, "view", calls[1].id, calls[1].sessionId)
    /\ ArrivedAt(2) - calls[1].created_at = TickMs
    /\ calls[2].incAt = -1
    /\ views_count[calls[1].id] = 1

\* a second view 80 minutes after the first that was counted again
C9_WitnessOutside ==
    /\ Last(2)
    /\ calls[1].op = "view"
    /\ Target(2, "view", calls[1].id, calls[1].sessionId)
    /\ ArrivedAt(2) - calls[1].created_at = 2 * TickMs
    /\ views_count[calls[1].id] = 2

Dist(a, b) == IF a >= b THEN a - b ELSE b - a

\* C10: two increments of views_count made for the same (paper, session) are
\* always more than 1 hour apart, for any interleaving of concurrent views.
C10_OneIncrementPerWindow ==
    \A c, d \in Calls :
        (/\ c # d
         /\ calls[c].op = "view"
         /\ Target(d, "view", calls[c].id, calls[c].sessionId)
         /\ calls[c].incAt >= 0 /\ calls[d].incAt >= 0)
        => Dist(calls[c].incAt, calls[d].incAt) > HourMs

\* every request that has arrived is answered and was operation o on paper p,
\* each from a different session, none of which had liked p
FirstTimeOnly(o, p) ==
    /\ Quiescent /\ Done(1)
    /\ \A c \in Calls :
         Done(c) => /\ calls[c].op = o /\ calls[c].id = p
                    /\ <<p, calls[c].sessionId>> \notin prior
    /\ \A c, d \in Calls :
         (Done(c) /\ Done(d) /\ c # d) => calls[c].sessionId # calls[d].sessionId

Answered == Cardinality({c \in Calls : Done(c)})

\* C11: when K sessions that had not liked p each like p once, concurrently and
\* in any interleaving, likes_count(p) ends exactly K higher; and K first views
\* of p from K sessions raise views_count(p) by exactly K.
C11_NoLostUpdate ==
    \A p \in Papers :
        /\ FirstTimeOnly("like", p) => likes_count[p] = Initial(p) + Answered
        /\ FirstTimeOnly("view", p) => views_count[p] = Answered

\* two likes of one paper from two sessions, both past findOne before either
\* incremented, both counted
C11_Witness ==
    /\ Done(1) /\ Done(2)
    /\ calls[1].op = "like"
    /\ Target(2, "like", calls[1].id, calls[2].sessionId)
    /\ calls[1].sessionId # calls[2].sessionId
    /\ calls[1].paper = calls[2].paper
    /\ calls[1].resp.message = "Paper liked successfully"
    /\ calls[2].resp.message = "Paper liked successfully"
    /\ likes_count[calls[1].id] = calls[1].paper + 2

\* request r is one the handlers must reject
MustReject(r) ==
    \/ r.id \notin Papers
    \/ r.op = "unlike" /\ r.sessionId = Missing

\* C12: a like, unlike or view request with a malformed paper id, an unlike
\* without sessionId, or a request for a paper id that matches no paper is
\* answered 400, 400 and 404, and the step that answers it leaves the ledger
\* and every counter exactly as they were.
C12_RejectedBeforeMutation ==
    [][\A c \in Calls :
         (calls[c].pc = "idle" /\ calls'[c].pc # "idle" /\ MustReject(calls'[c]))
         => /\ calls'[c].pc = "done"
            /\ calls'[c].resp.status =
                 (IF calls'[c].op = "unlike" /\ calls'[c].sessionId = Missing
                  THEN 400
                  ELSE IF calls'[c].id = MalformedId THEN 400 ELSE 404)
            /\ UNCHANGED <<likes_count, views_count, engagements>>]_vars

\* an unlike without sessionId rejected after a like of the same paper was
\* counted, and the like is still in place
C12_Witness ==
    \E c \in Calls :
        /\ c > 1 /\ Last(c)
        /\ calls[c - 1].resp.message = "Paper liked successfully"
        /\ calls[c].op = "unlike" /\ calls[c].id = calls[c - 1].id
        /\ calls[c].resp = Resp(400, "Session ID is required", FALSE, 0)
        /\ likes_count[calls[c].id] = calls[c - 1].resp.likesCount
        /\ Entries(calls[c - 1].id, calls[c - 1].sessionId, "like") = 1

\* the identifiers the iteration has returned
Returned == {chain.got[i] : i \in 1..Len(chain.got)}

\* C13: when a client has followed nextCursor from the first page to a page
\* with hasMore = false, every paper that matched the filter when the
\* iteration began is on some page, papers whose sort keys equal those of the
\* last item of a page included; and when no paper was inserted meanwhile the
\* number of identifiers returned is the number of matching papers.
C13_CursorIterationComplete ==
    chain.state = "ended" =>
        /\ chain.start \subseteq Returned
        /\ chain.inserted = 0 => Len(chain.got) = Cardinality(chain.start)

\* created_at of the paper with identifier i
StampOf(i) == (CHOOSE d \in papersCollection : d.id = i).created_at

\* C14: while a client iterates by cursor under sort=newest and papers newer
\* than every cursor boundary are inserted between its requests, no
\* identifier is returned twice, and the pages hold only papers that matched
\* when the iteration began, from newest to oldest: the inserted papers
\* neither appear on the remaining pages nor move their items.
C14_NewestStableUnderInserts ==
    (chain.sort = "newest" /\ chain.state \in {"open", "ended"}) =>
        /\ \A i, j \in 1..Len(chain.got) :
             i < j => /\ chain.got[i] # chain.got[j]
                      /\ StampOf(chain.got[i]) >= StampOf(chain.got[j])
        /\ Returned \subseteq chain.start

\* an iteration of two pages or more that has ended, during which a paper
\* was inserted
C14_Witness ==
    /\ chain.sort = "newest" /\ chain.state = "ended"
    /\ chain.pages >= 2 /\ Len(chain.got) >= 2
    /\ chain.inserted >= 1

\* C15: a request without cursor that is answered with a full page (exactly
\* limit items) carries a nextCursor in its pagination metadata.
C15_PlainRequestExposesNextCursor ==
    (/\ feed.pc = "done" /\ feed.status = 200
     /\ feed.cursor = NoCursor
     /\ StrictEq(feed.limitNum, Len(feed.papers)))
    => feed.pagination.nextCursor # NoCursor

\* C16: a request that carries the nextCursor of a response produced under
\* another sort mode is answered 400 (Invalid cursor) and runs no query.
C16_CrossModeCursorRejected ==
    (feed.pc = "done" /\ feed.cursorFrom \notin {"none", feed.sort})
    => feed.status = 400 /\ ~feed.queried

\* the sort keys a cursor must carry for the cursor condition of a sort mode
Needed(sort) ==
    IF sort = "newest" THEN {"created_at"}
    ELSE IF sort = "popular" THEN {"likes_count", "created_at"}
    ELSE {}

\* C17: a request whose cursor is not base64 JSON, or decodes to a value
\* without the sort keys its sort mode needs, is answered 400 (Invalid cursor)
\* and runs no query.
C17_BadCursorRejected ==
    (/\ feed.pc = "done"
     /\ \/ feed.cursor.kind = "garbage"
        \/ feed.cursor.kind \in {"json", "null"}
              /\ ~(Needed(feed.sort) \subseteq feed.cursor.has))
    => feed.status = 400 /\ ~feed.queried

\* C18: a request that carries a cursor and a page, and is answered 200, has
\* skipped 0 documents whatever the page, and its pagination metadata is that
\* of the cursor mode, with hasMore true and a nextCursor exactly when the
\* page holds limit items.
C18_CursorOverridesPage ==
    (/\ feed.pc = "done" /\ feed.status = 200
     /\ feed.cursor # NoCursor /\ feed.page # Absent)
    => /\ feed.skipped = Num(0)
       /\ feed.pagination.mode = "cursor"
       /\ feed.pagination.limit = feed.limitNum
       /\ feed.pagination.hasMore = StrictEq(feed.limitNum, Len(feed.papers))
       /\ (feed.pagination.nextCursor # NoCursor)
             = StrictEq(feed.limitNum, Len(feed.papers))

\* a request with page=2, limit=1 and a cursor that returned a full page from
\* the top
C18_Witness ==
    /\ feed.pc = "done" /\ feed.status = 200
    /\ feed.cursor = TopCursor /\ feed.page = Numeral(2)
    /\ feed.skip = Num(1)
    /\ Len(feed.papers) = 1
    /\ feed.pagination.nextCursor # NoCursor

\* C19: for a numeral limit the effective limit is 1 when limit < 1, limit up
\* to 100, and 100 above; for a numeral page the effective page is 1 when
\* page < 1 and page otherwise; no response holds more items than the
\* effective limit.
C19_LimitAndPageClamped ==
    feed.pc # "idle" =>
        /\ feed.limit.kind = "numeral" =>
             /\ feed.limitNum =
                  (IF feed.limit.v < 1 THEN Num(1)
                   ELSE IF feed.limit.v > 100 THEN Num(100)
                   ELSE Num(feed.limit.v))
             /\ Len(feed.papers) <= feed.limitNum.v
        /\ feed.page.kind = "numeral" =>
             feed.pageNum = (IF feed.page.v < 1 THEN Num(1) ELSE Num(feed.page.v))

\* limit=500 and page=0 answered with limit 100 and page 1
C19_Witness ==
    /\ feed.pc = "done" /\ feed.status = 200
    /\ feed.limit = Numeral(500) /\ feed.page = Numeral(0)
    /\ feed.pagination.limit = Num(100) /\ feed.pagination.page = Num(1)

\* C20: a request with a page or limit that is no number is answered 200: the
\* page counts as 1, and the query runs with a skip that is a non-negative
\* integer and a limit between 1 and 100.
C20_NonNumericCoerced ==
    (feed.pc = "done" /\ (feed.page = Text \/ feed.limit = Text))
    => /\ feed.status = 200
       /\ feed.page = Text => feed.pageNum = Num(1)
       /\ (~feed.limitNum.nan) /\ feed.limitNum.v \in 1..100
       /\ (~feed.skipped.nan) /\ feed.skipped.v >= 0

\* the documents a request without cursor matches
Matched(r) == Filter(r.category, NoCursor, r.sort)

\* C21: a request without cursor whose page and limit are numerals skips
\* (page - 1) * limit documents and answers with total = the number of
\* documents matching the filter, totalPages = ceil(total / limit) and
\* hasMore = (page * limit < total); the page holds the documents left after
\* the skip, at most limit of them.
C21_PageArithmetic ==
    (/\ feed.pc = "done" /\ feed.status = 200 /\ feed.cursor = NoCursor
     /\ feed.page.kind = "numeral" /\ feed.limit.kind = "numeral")
    => LET total == Cardinality(Matched(feed))
           p     == feed.pageNum.v
           l     == feed.limitNum.v
           pages == feed.pagination.totalPages
       IN  /\ feed.skipped = Num((p - 1) * l)
           /\ feed.pagination.total = total
           /\ ~pages.nan
           /\ pages.v * l >= total /\ (pages.v - 1) * l < total
           /\ feed.pagination.hasMore = (p * l < total)
           /\ Len(feed.papers) = Min(l, Max(0, total - (p - 1) * l))
           /\ \A i \in 1..Len(feed.papers) :
                 feed.papers[i] \in {d.id : d \in Matched(feed)}

\* page 1 with limit 2 over three documents: two pages, more to come
C21_Witness ==
    /\ feed.pc = "done" /\ feed.status = 200 /\ feed.cursor = NoCursor
    /\ feed.page = Numeral(1) /\ feed.limit = Numeral(2)
    /\ feed.skipped = Num(0)
    /\ feed.pagination.total = 3
    /\ feed.pagination.totalPages = Num(2)
    /\ feed.pagination.hasMore
    /\ Len(feed.papers) = 2

\* the stored document with identifier i
PaperOf(i) == CHOOSE d \in papersCollection : d.id = i

\* C22: every document a getFeed response returns is a processed one, of the
\* requested category when one was requested.
C22_OnlyProcessedReturned ==
    (feed.pc = "done" /\ feed.status = 200)
    => \A i \in 1..Len(feed.papers) :
          /\ PaperOf(feed.papers[i]).processed
          /\ feed.category # NoCategory =>
                PaperOf(feed.papers[i]).category = feed.category

\* the total order of the sort modes newest and popular: the sort keys, then
\* the identifier descending
TotalBefore(a, b, sort) ==
    \/ Before(a, b, sort)
    \/ ~Before(b, a, sort) /\ a.id > b.id

\* C23: the items of a page of sort newest or popular follow the total order
\* (creation time descending, resp. likes descending then creation time
\* descending, ties by identifier descending), so the keys of the stored
\* documents determine the page.
C23_TotalOrderWithinPage ==
    (feed.pc = "done" /\ feed.status = 200 /\ feed.sort \in {"newest", "popular"})
    => \A i, j \in 1..Len(feed.papers) :
          i < j => TotalBefore(PaperOf(feed.papers[i]), PaperOf(feed.papers[j]),
                               feed.sort)

\* C24: a getFeed response of sort trending ranks its items as getTrending
\* does: no item comes after one of a lower score
\* (2 * likes_count + views_count) / (age in days + 1), nor after an older one
\* of the same score.
C24_FeedTrendingRanksByScore ==
    (feed.pc = "done" /\ feed.status = 200 /\ feed.sort = "trending")
    => \A i, j \in 1..Len(feed.papers) :
          i < j => ~ScoreBefore(PaperOf(feed.papers[j]), PaperOf(feed.papers[i]))

\* the creation time of d lies in [now - w days, now]
InWindow(d, w) ==
    LET age == now - d.created_at
    IN  age >= 0 /\ (age - 1) \div DayMs < w

\* the papers of the requested category created within the window
WindowOf(r) ==
    {d \in papersCollection :
        /\ r.category = NoCategory \/ d.category = r.category
        /\ InWindow(d, r.timeWindowNum)}

\* the items of the response
TrendingReturned == {trending.papers[i] : i \in 1..Len(trending.papers)}

\* the request asks for the first page and the page has room for all of S
WholeSet(S) ==
    trending.skip = Num(0) /\ trending.limitNum.v >= Cardinality(S)

\* C25 as stated: the candidates of a getTrending response are exactly the
\* papers of the requested category created within the window of 1, 7 or 30
\* days: the total is their number, every item is one of them, and a page
\* with room for all holds each of them.
C25_CandidatesAreWindow ==
    (trending.pc = "done" /\ trending.status = 200)
    => /\ trending.timeWindowNum \in Windows
       /\ trending.totalCount = Cardinality(WindowOf(trending))
       /\ TrendingReturned \subseteq {d.id : d \in WindowOf(trending)}
       /\ WholeSet(WindowOf(trending))
             => TrendingReturned = {d.id : d \in WindowOf(trending)}

\* C25 amended: the candidates are exactly the processed papers of the
\* requested category created within the window.
C25_CandidatesAreProcessedWindow ==
    (trending.pc = "done" /\ trending.status = 200)
    => LET S == {d \in WindowOf(trending) : d.processed}
       IN  /\ trending.timeWindowNum \in Windows
           /\ trending.totalCount = Cardinality(S)
           /\ TrendingReturned \subseteq {d.id : d \in S}
           /\ WholeSet(S) => TrendingReturned = {d.id : d \in S}

\* window 7: a processed paper aged 1 day is returned, a processed paper
\* aged 9 days is not
C25_Witness ==
    /\ trending.pc = "done" /\ trending.status = 200
    /\ trending.timeWindow = Numeral(7) /\ trending.category = NoCategory
    /\ \E d, e \in papersCollection :
          /\ d.processed /\ now - d.created_at = DayMs
          /\ e.processed /\ now - e.created_at = 9 * DayMs
          /\ d.id \in TrendingReturned /\ e.id \notin TrendingReturned

\* the items of a getTrending response are ranked by score, not increasing
RankedByScore ==
    \A i, j \in 1..Len(trending.papers) :
       i < j =>
          LET a == PaperOf(trending.papers[i])
              b == PaperOf(trending.papers[j])
          IN  /\ ~Greater(trending_score(b), trending_score(a))
              /\ trending_score(a) = trending_score(b)
                    => a.created_at >= b.created_at
              /\ engagement_score(a) = engagement_score(b)
                    => a.created_at >= b.created_at

\* items of the same score and creation time come by identifier, descending
TiesByIdentifier ==
    \A i, j \in 1..Len(trending.papers) :
       i < j =>
          LET a == PaperOf(trending.papers[i])
              b == PaperOf(trending.papers[j])
          IN  (trending_score(a) = trending_score(b)
               /\ a.created_at = b.created_at) => a.id > b.id

\* a paper with 10 likes and no views, one day old, has score 10
ScoreOfExample ==
    \A d \in papersCollection :
       (d.likes_count = 10 /\ d.views_count = 0 /\ now - d.created_at = DayMs)
       => trending_score(d) = Frac(10, 1)

\* C26: a getTrending response lists its items by score
\* (likes_count * 2 + views_count) / (age in days + 1), not increasing, items
\* of equal score by creation time descending and then by identifier; a paper
\* with 10 likes, no views and an age of one day has score 10; of two papers
\* with equal engagement the newer never comes after the older.
C26_TrendingOrder ==
    (trending.pc = "done" /\ trending.status = 200)
    => RankedByScore /\ TiesByIdentifier /\ ScoreOfExample

\* C27: in every sort mode, every item of a page requested with the
\* nextCursor of a response of the same sort comes strictly after the item
\* the cursor was built from, so that following nextCursor advances.
C27_CursorPagesAdvance ==
    (/\ feed.pc = "done" /\ feed.status = 200
     /\ feed.cursor.kind = "json" /\ feed.cursorFrom = feed.sort)
    => \A i \in 1..Len(feed.papers) :
          Before(PaperOf(feed.cursor.id), PaperOf(feed.papers[i]), feed.sort)

\* no identifier is on two pages of the iteration
NoPaperTwice ==
    \A i, j \in 1..Len(chain.got) : i # j => chain.got[i] # chain.got[j]

\* C28: while a client follows nextCursor through the popular feed and likes
\* and unlikes change likes_count between its requests, no identifier is
\* returned on two pages, and when the iteration has ended every paper that
\* matched the filter throughout is on some page.
C28_PopularStableUnderLikes ==
    chain.sort = "popular" =>
        /\ NoPaperTwice
        /\ chain.state = "ended" => chain.start \subseteq Returned

\* request c is a like whose sessionId the handler generated
NoSessionLike(c) == calls[c].op = "like" /\ calls[c].sessionId = uuidv4(c)

\* C29: a like request of an existing paper without sessionId does not fail
\* and is handled as a like from a session never used before: it finds no
\* like of its session, inserts one ledger entry, raises likes_count by
\* exactly one, and answers 200 "Paper liked successfully" with the new
\* count and the generated sessionId.
C29_LikeWithoutSession ==
    [][\A c \in Calls, p \in Papers :
          (NoSessionLike(c)' /\ calls'[c].id = p) =>
             LET s == uuidv4(c)
             IN  /\ calls[c].pc = "idle" => Entries(p, s, "like") = 0
                 /\ (calls[c].pc = "check" /\ calls'[c].pc # "check")
                       => calls'[c].pc = "insert"
                 /\ (calls[c].pc = "insert" /\ calls'[c].pc # "insert")
                       => /\ Entries(p, s, "like") = 0
                          /\ Entries(p, s, "like")' = 1
                 /\ (calls[c].pc = "inc" /\ calls'[c].pc # "inc")
                       => /\ likes_count'[p] = likes_count[p] + 1
                          /\ calls'[c].resp =
                                Resp(200, "Paper liked successfully", TRUE,
                                     likes_count'[p])
                          /\ ResponseSessionId(c)' = s
                 /\ calls'[c].pc = "done"
                       => /\ calls'[c].resp.status = 200
                          /\ Entries(p, s, "like")' = 1]_vars

\* two requests without sessionId have liked the same paper: two new ledger
\* entries, two increments, each response with its own generated sessionId
C29_Witness ==
    /\ \A c \in 1..2 :
          /\ Done(c) /\ NoSessionLike(c) /\ calls[c].id = "p1"
          /\ calls[c].resp.message = "Paper liked successfully"
          /\ ResponseSessionId(c) = uuidv4(c)
          /\ Entries("p1", uuidv4(c), "like") = 1
    /\ likes_count["p1"] = Initial("p1") + 2

\* the documents of the ledger before or after the step
LedgerDocs == BagToSet(engagements) \cup BagToSet(engagements')

\* the step keeps the number of copies of the ledger document e
Kept(e) == CopiesIn(e, engagements') = CopiesIn(e, engagements)

\* C30: a step of like(p, s) or unlike(p, s) leaves every views_count, the
\* likes_count of every other paper and the ledger entries of every other
\* (paper, session, type) unchanged; a step of view(p, s) changes no
\* likes_count and no like entry; a step of a feed or trending read changes
\* no counter, no ledger entry and no paper document.
C30_FrameEffects ==
    [][/\ \A c \in Calls :
            calls'[c] # calls[c] =>
               /\ calls'[c].op \in {"like", "unlike"} =>
                     /\ views_count' = views_count
                     /\ \A q \in Papers :
                           q # calls'[c].id => likes_count'[q] = likes_count[q]
                     /\ \A e \in LedgerDocs :
                           (\/ e.paper_id # calls'[c].id
                            \/ e.session_id # calls'[c].sessionId
                            \/ e.type # "like") => Kept(e)
               /\ calls'[c].op = "view" =>
                     /\ likes_count' = likes_count
                     /\ \A e \in LedgerDocs : e.type = "like" => Kept(e)
               /\ papersCollection' = papersCollection
       /\ (feed' # feed \/ trending' # trending) =>
            /\ likes_count' = likes_count /\ views_count' = views_count
            /\ engagements' = engagements
            /\ papersCollection' = papersCollection]_vars

\* s1 has liked and viewed p1 and the feed and the trending list have been
\* read, while the like of s2 for p2 and the counters of p2 are as before
C30_Witness ==
    /\ prior = {<<"p2", "s2">>}
    /\ Done(1) /\ Target(1, "like", "p1", "s1")
    /\ Done(2) /\ Target(2, "view", "p1", "s1")
    /\ likes_count = [p1 |-> 1, p2 |-> 1]
    /\ views_count = [p1 |-> 1, p2 |-> 0]
    /\ Entries("p2", "s2", "like") = 1
    /\ feed.pc = "done" /\ trending.pc = "done"
    /\ Len(feed.papers) = 2 /\ Len(trending.papers) = 2

====
